---- MODULE Spec2Model ----
(***************************************************************************)
(* Model of move-chat.py: the migration transaction move_session, the      *)
(* session index store and the path encoder, over a small file system.     *)
(*                                                                         *)
(* A project path is a sequence of characters.  The file system maps the   *)
(* name of every existing project directory (under PROJECTS_DIR) to its    *)
(* content: the index file (a sequence holding no or one document), the    *)
(* log files <id>.jsonl and the auxiliary directories <id>/ (functions     *)
(* whose domain is the set of names that exist).                           *)
(***************************************************************************)
EXTENDS Integers, Sequences, FiniteSets, TLC

VARIABLES fs, clock, proc, fs0

vars == <<fs, clock, proc, fs0>>

\* Largest value the wall clock reaches in the model.
MaxClock == 3

\* The wall clock when the tool starts; the entries already on disk were
\* stamped earlier.
StartClock == 1

Procs == {1, 2}

Sessions == {"s1", "s2"}

\* "/a.b", "/a/b" and "/c": the first two encode to the same directory.
Paths == {<<"/", "a", ".", "b">>, <<"/", "a", "/", "b">>, <<"/", "c">>}

----------------------------------------------------------------------------
\* Path encoder

\* str.replace(old, new) on a sequence of characters
replace(s, old, new) == [i \in DOMAIN s |-> IF s[i] = old THEN new ELSE s[i]]

\* re.sub(r"[<class>]", new, s)
re_sub(class, new, s) == [i \in DOMAIN s |-> IF s[i] \in class THEN new ELSE s[i]]

encode_path(path) == re_sub({"@", "."}, "-", replace(path, "/", "-"))

\* PROJECTS_DIR / encoded: a project directory is named by its encoded path
get_project_dir(project_path) == encode_path(project_path)

Dirs == {get_project_dir(p) : p \in Paths}

----------------------------------------------------------------------------
\* File system helpers

Put(f, k, v) == [x \in (DOMAIN f) \cup {k} |-> IF x = k THEN v ELSE f[x]]

Drop(f, k) == [x \in (DOMAIN f) \ {k} |-> f[x]]

\* Path.exists() of a project directory, a log file, an auxiliary directory
\* and the index file
dir_exists(f, d) == d \in DOMAIN f

jsonl_exists(f, d, sid) == d \in DOMAIN f /\ sid \in DOMAIN f[d].logs

subdir_exists(f, d, sid) == d \in DOMAIN f /\ sid \in DOMAIN f[d].subdirs

index_exists(f, d) == d \in DOMAIN f /\ f[d].index # <<>>

\* The content of a file that was being written, or a tree that was being
\* copied or removed, when the operation failed: a proper prefix.
Partial(content) == {SubSeq(content, 1, k) : k \in 0..(Len(content) - 1)}

----------------------------------------------------------------------------
\* Session index store

\* An index document.  valid = FALSE is a file json.load cannot parse.
Doc(entries, original_path) ==
    [valid |-> TRUE, version |-> 1, entries |-> entries, originalPath |-> original_path]

Corrupt == [valid |-> FALSE, version |-> 0, entries |-> <<>>, originalPath |-> <<>>]

\* load_sessions_index raises (json.JSONDecodeError) on this directory
load_raises(f, d) == index_exists(f, d) /\ ~f[d].index[1].valid

\* load_sessions_index when it does not raise
load_sessions_index(f, d, original_path) ==
    IF ~index_exists(f, d) THEN Doc(<<>>, original_path) ELSE f[d].index[1]

\* Faulty variant: the save keeps the entries on disk of the sessions that the
\* document being saved does not mention
save_sessions_index_merged(f, d, index) ==
    LET old == IF index_exists(f, d) /\ f[d].index[1].valid
               THEN f[d].index[1].entries ELSE <<>>
        kept == SelectSeq(old, LAMBDA x :
                   \A i \in DOMAIN index.entries : index.entries[i].sessionId # x.sessionId)
    IN  Put(f, d, [f[d] EXCEPT !.index = <<[index EXCEPT !.entries = kept \o @]>>])

\* save_sessions_index when it returns: the file holds the document
save_sessions_index(f, d, index) == Put(f, d, [f[d] EXCEPT !.index = <<index>>])

\* save_sessions_index when it raises: open() failed and the file is as it
\* was, or the file was truncated and json.dump did not finish
save_failed(f, d) == {f, Put(f, d, [f[d] EXCEPT !.index = <<Corrupt>>])}

\* Position (from 1) of the first entry with this sessionId, 0 for None
find_session_in_index(index, session_id) ==
    LET hits == {i \in DOMAIN index.entries : index.entries[i].sessionId = session_id}
    IN  IF hits = {} THEN 0 ELSE CHOOSE i \in hits : \A j \in hits : i <= j

\* <project_dir>/<session_id>.jsonl as a path
jsonl_path(project_dir, session_id) == <<project_dir, session_id>>

\* Faulty variant: the synthesized entry carries no summary
create_session_entry_blank(session_id, project_dir, project_path, t_created, t_modified) ==
    [sessionId |-> session_id,
     fullPath |-> jsonl_path(project_dir, session_id),
     projectPath |-> project_path,
     summary |-> "",
     created |-> t_created,
     modified |-> t_modified]

\* Lines 60-70: the entry synthesized for a session found only on disk
create_session_entry(session_id, project_dir, project_path, t_created, t_modified) ==
    [sessionId |-> session_id,
     fullPath |-> jsonl_path(project_dir, session_id),
     projectPath |-> project_path,
     summary |-> "Migrated session",
     created |-> t_created,
     modified |-> t_modified]

\* Values datetime.now() can return after the clock showed t
Now(t) == {u \in t..MaxClock : u <= t + 1}

----------------------------------------------------------------------------
\* Initial file system

\* The project path recorded for a directory that exists before the call
OrigPath(d) == CHOOSE p \in Paths : get_project_dir(p) = d

\* The bytes of a log file, and the tree of an auxiliary directory, that
\* were created in directory d for session sid: one block naming its origin
LogData(d, sid) == << <<d, sid, "jsonl">> >>

SubData(d, sid) == << <<d, sid, "tree">> >>

\* An entry the assistant wrote into the index of directory d before the call
Entry0(sid, d) ==
    [sessionId |-> sid,
     fullPath |-> jsonl_path(d, sid),
     projectPath |-> OrigPath(d),
     summary |-> IF sid = "s1" THEN "Fix bug" ELSE "Other",
     created |-> 0,
     modified |-> StartClock]

\* Entry lists with unique session identifiers
InitEntries(d) ==
    {<<>>, <<Entry0("s1", d)>>, <<Entry0("s2", d)>>,
     <<Entry0("s1", d), Entry0("s2", d)>>, <<Entry0("s2", d), Entry0("s1", d)>>}

InitIndexFiles(d) ==
    {<<>>, <<Corrupt>>} \cup {<<Doc(es, OrigPath(d))>> : es \in InitEntries(d)}

\* The artifacts of s1 are present or absent independently of the index;
\* those of the other session are present exactly when it is indexed.
InitArtifacts(ix) ==
    {T \in SUBSET Sessions :
       ("s2" \in T) = (ix # <<>> /\ find_session_in_index(ix[1], "s2") # 0)}

InitDirStates(d) ==
    UNION {{[index |-> ix,
             logs |-> [s \in L |-> LogData(d, s)],
             subdirs |-> [s \in S |-> SubData(d, s)]] :
               L \in InitArtifacts(ix), S \in InitArtifacts(ix)} :
           ix \in InitIndexFiles(d)}

InitFS ==
    UNION {{f \in [E -> UNION {InitDirStates(d) : d \in E}] :
              \A d \in E : f[d] \in InitDirStates(d)} :
           E \in SUBSET Dirs}

\* Faulty variant: creating the destination project also writes an empty index
DirWithIndex == [index |-> <<Doc(<<>>, <<>>)>>, logs |-> <<>>, subdirs |-> <<>>]

\* A directory as mkdir creates it
EmptyDir == [index |-> <<>>, logs |-> <<>>, subdirs |-> <<>>]

----------------------------------------------------------------------------
\* One invocation of move_session

NoEntry ==
    [sessionId |-> "", fullPath |-> <<>>, projectPath |-> <<>>, summary |-> "",
     created |-> 0, modified |-> 0]

\* The value of e before the handler at line 259 binds it
NoException == [type |-> "", at |-> ""]

\* The locals of move_session; the indexes and the entries hold placeholders
\* until the code assigns them.
Invocation(session_id, source_path, dest_path, dry_run) ==
    [pc |-> "start",
     session_id |-> session_id,
     source_path |-> source_path,
     dest_path |-> dest_path,
     dry_run |-> dry_run,
     source_index |-> Corrupt,
     session_idx |-> 0,
     session_data |-> NoEntry,
     dest_index |-> Corrupt,
     new_session_data |-> NoEntry,
     dest_index_restored |-> Corrupt,
     e |-> NoException,
     exit_code |-> -1,
     out |-> {}]

Idle == [Invocation("", <<>>, <<>>, FALSE) EXCEPT !.pc = "idle"]

source_dir(p) == get_project_dir(proc[p].source_path)

dest_dir(p) == get_project_dir(proc[p].dest_path)

\* sys.exit(code), or return from main (code 0), after printing msg
Exit(r, code, msg) == [r EXCEPT !.pc = "exit", !.exit_code = code, !.out = @ \cup {msg}]

\* An exception outside the try block: the interpreter prints the traceback
\* and the process ends with status 1
Uncaught(r) == Exit(r, 1, "Traceback")

Init ==
    /\ fs \in InitFS
    /\ fs0 = fs
    /\ clock = StartClock
    /\ \E src \in Paths, dst \in Paths, dry \in BOOLEAN :
          /\ proc = [p \in Procs |-> IF p = 1 THEN Invocation("s1", src, dst, dry) ELSE Idle]
          \* a project directory the call does not name plays no part
          /\ DOMAIN fs \subseteq {get_project_dir(src), get_project_dir(dst)}

\* Faulty variant: the source project is not validated
source_missing_unchecked(f, d) == FALSE

\* Line 126: the source project is missing
source_missing(f, d) == ~dir_exists(f, d)

\* Lines 122-128: resolve the directories, validate the source project
Start(p) ==
    /\ proc[p].pc = "start"
    /\ proc' = [proc EXCEPT ![p] =
                  IF source_missing(fs, source_dir(p))
                  THEN Exit(@, 1, "Error: Source project directory does not exist")
                  ELSE [@ EXCEPT !.pc = "mkdir"]]
    /\ UNCHANGED <<fs, clock, fs0>>

\* Faulty variant: the destination directory is created in a dry run too
mkdir_always(dry_run) == TRUE

\* Line 134: the destination directory is created unless this is a dry run
mkdir_wanted(dry_run) == ~dry_run

\* Lines 130-135: create the destination project if it does not exist
Mkdir(p) ==
    /\ proc[p].pc = "mkdir"
    /\ IF ~dir_exists(fs, dest_dir(p)) /\ mkdir_wanted(proc[p].dry_run)
       THEN \/ /\ fs' = Put(fs, dest_dir(p), EmptyDir)
               /\ proc' = [proc EXCEPT ![p].pc = "load_source"]
            \/ /\ fs' = fs
               /\ proc' = [proc EXCEPT ![p] = Uncaught(@)]
       ELSE /\ fs' = fs
            /\ proc' = [proc EXCEPT ![p].pc = "load_source"]
    /\ UNCHANGED <<clock, fs0>>

\* Lines 137-155: load the source index and locate the session
LoadSource(p) ==
    /\ proc[p].pc = "load_source"
    /\ IF load_raises(fs, source_dir(p))
       THEN /\ proc' = [proc EXCEPT ![p] = Uncaught(@)]
            /\ clock' = clock
       ELSE LET source_index == load_sessions_index(fs, source_dir(p), <<>>)
                session_result == find_session_in_index(source_index, proc[p].session_id)
            IN  IF session_result = 0
                THEN IF jsonl_exists(fs, source_dir(p), proc[p].session_id)
                     THEN \E t1 \in Now(clock) : \E t2 \in Now(t1) :
                            /\ proc' = [proc EXCEPT ![p] =
                                 [@ EXCEPT !.pc = "load_dest",
                                           !.source_index = source_index,
                                           !.session_idx = 0,
                                           !.session_data =
                                              create_session_entry(
                                                 proc[p].session_id, source_dir(p),
                                                 proc[p].source_path, t1, t2)]]
                            /\ clock' = t2
                     ELSE /\ proc' = [proc EXCEPT ![p] =
                                 Exit([@ EXCEPT !.source_index = source_index], 1,
                                      "Error: Session not found in source project")]
                          /\ clock' = clock
                ELSE /\ proc' = [proc EXCEPT ![p] =
                            [@ EXCEPT !.pc = "load_dest",
                                      !.source_index = source_index,
                                      !.session_idx = session_result,
                                      !.session_data = source_index.entries[session_result]]]
                     /\ clock' = clock
    /\ UNCHANGED <<fs, fs0>>

\* Faulty variant: the project path of the staged entry is not rewritten
stage_entry_stale(session_data, dest_jsonl, dest_path, now) ==
    [session_data EXCEPT !.fullPath = dest_jsonl, !.modified = now]

\* Lines 179-183: the entry staged for the destination index
stage_entry(session_data, dest_jsonl, dest_path, now) ==
    [session_data EXCEPT !.fullPath = dest_jsonl,
                         !.projectPath = dest_path,
                         !.modified = now]

\* Faulty variant: the destination index is not checked for the session
never_in_destination(dest_index, session_id) == FALSE

\* Line 166: the session is already listed in the destination index
already_in_destination(dest_index, session_id) ==
    find_session_in_index(dest_index, session_id) # 0

\* Lines 164-183: load the destination index, reject a duplicate, stage the
\* new entry
LoadDest(p) ==
    /\ proc[p].pc = "load_dest"
    /\ IF load_raises(fs, dest_dir(p))
       THEN /\ proc' = [proc EXCEPT ![p] = Uncaught(@)]
            /\ clock' = clock
       ELSE LET dest_index == load_sessions_index(fs, dest_dir(p), proc[p].dest_path)
            IN  IF already_in_destination(dest_index, proc[p].session_id)
                THEN /\ proc' = [proc EXCEPT ![p] =
                            Exit([@ EXCEPT !.dest_index = dest_index], 1,
                                 "Error: Session already exists in destination project")]
                     /\ clock' = clock
                ELSE \E now \in Now(clock) :
                       /\ proc' = [proc EXCEPT ![p] =
                            [@ EXCEPT !.pc = IF proc[p].dry_run THEN "dry_run" ELSE "copy_jsonl",
                                      !.dest_index = dest_index,
                                      !.new_session_data =
                                         stage_entry(proc[p].session_data,
                                                     jsonl_path(dest_dir(p), proc[p].session_id),
                                                     proc[p].dest_path, now)]]
                       /\ clock' = now
    /\ UNCHANGED <<fs, fs0>>

\* Lines 185-211: the dry run prints the plan and returns
DryRun(p) ==
    /\ proc[p].pc = "dry_run"
    /\ proc' = [proc EXCEPT ![p] = Exit(@, 0, "Dry run complete.")]
    /\ UNCHANGED <<fs, clock, fs0>>

----------------------------------------------------------------------------
\* File operations of the migration

write_log(f, d, sid, content) == Put(f, d, [f[d] EXCEPT !.logs = Put(@, sid, content)])

write_subdir(f, d, sid, content) == Put(f, d, [f[d] EXCEPT !.subdirs = Put(@, sid, content)])

\* Path.unlink() of <d>/<sid>.jsonl
unlink(f, d, sid) == Put(f, d, [f[d] EXCEPT !.logs = Drop(@, sid)])

\* shutil.rmtree of <d>/<sid>/ when it returns
rmtree(f, d, sid) == Put(f, d, [f[d] EXCEPT !.subdirs = Drop(@, sid)])

\* shutil.rmtree when it raises: nothing, or only a part, was removed
rmtree_failed(f, d, sid) ==
    {f} \cup {write_subdir(f, d, sid, c) : c \in Partial(f[d].subdirs[sid])}

\* shutil.copy2(source_jsonl, dest_jsonl) when it returns: an existing
\* destination file is overwritten
copy2(f, src, dst, sid) == write_log(f, dst, sid, f[src].logs[sid])

\* shutil.copy2 raises SameFileError when both names are the same file
copy2_same_file(src, dst) == src = dst

\* shutil.copy2 when it raises for another reason: the destination file is
\* as it was, or holds a part of the source
copy2_failed(f, src, dst, sid) ==
    {f} \cup {write_log(f, dst, sid, c) : c \in Partial(f[src].logs[sid])}

\* shutil.copytree(source_subdir, dest_subdir) when it returns
copytree(f, src, dst, sid) == write_subdir(f, dst, sid, f[src].subdirs[sid])

\* shutil.copytree raises FileExistsError when the destination exists
copytree_exists(f, dst, sid) == subdir_exists(f, dst, sid)

\* shutil.copytree when it raises for another reason
copytree_failed(f, src, dst, sid) ==
    {f} \cup {write_subdir(f, dst, sid, c) : c \in Partial(f[src].subdirs[sid])}

\* list.append
append(entries, e) == Append(entries, e)

\* Faulty variant: the entry is not removed
pop_kept(entries, i) == entries

\* list.pop(i), positions counted from 1
pop(entries, i) ==
    SubSeq(entries, 1, i - 1) \o SubSeq(entries, i + 1, Len(entries))

\* Faulty variant: the staged entry is not filtered out
without_session_kept(entries, session_id) == entries

\* Lines 272-275: the entries whose sessionId is not session_id, in order
RECURSIVE without_session(_, _)
without_session(entries, session_id) ==
    IF entries = <<>> THEN <<>>
    ELSE IF Head(entries).sessionId # session_id
         THEN <<Head(entries)>> \o without_session(Tail(entries), session_id)
         ELSE without_session(Tail(entries), session_id)

\* Lines 259-261: an exception of this type in the try block enters the
\* handler, which binds it to e; e.at is the step the traceback names
Raise(r, type) ==
    [r EXCEPT !.pc = "rollback_jsonl",
              !.e = [type |-> type, at |-> r.pc],
              !.out = @ \cup {"Error during migration", "Attempting rollback..."}]

\* Faulty variant: a failed rollback does not reach sys.exit(1)
RollbackFailed_exit0(r) ==
    Exit([r EXCEPT !.out = @ \cup {"Rollback failed"}], 0,
         "Manual intervention may be required.")

\* Lines 279-283: an exception in the rollback
RollbackFailed(r) ==
    Exit([r EXCEPT !.out = @ \cup {"Rollback failed"}], 1,
         "Manual intervention may be required.")

\* Lines 214-221, step 1: copy the log file
CopyJsonl(p) ==
    LET sid == proc[p].session_id IN
    /\ proc[p].pc = "copy_jsonl"
    /\ IF jsonl_exists(fs, source_dir(p), sid)
       THEN IF copy2_same_file(source_dir(p), dest_dir(p))
            THEN /\ fs' = fs
                 /\ proc' = [proc EXCEPT ![p] = Raise(@, "SameFileError")]
            ELSE \/ /\ fs' = copy2(fs, source_dir(p), dest_dir(p), sid)
                    /\ proc' = [proc EXCEPT ![p].pc = "copy_subdir"]
                 \/ /\ fs' \in copy2_failed(fs, source_dir(p), dest_dir(p), sid)
                    /\ proc' = [proc EXCEPT ![p] = Raise(@, "OSError")]
       ELSE /\ fs' = fs
            /\ proc' = [proc EXCEPT ![p] =
                  [@ EXCEPT !.pc = "copy_subdir",
                            !.out = @ \cup {"Warning: Source JSONL does not exist"}]]
    /\ UNCHANGED <<clock, fs0>>

\* Lines 223-227, step 2: copy the auxiliary directory
CopySubdir(p) ==
    LET sid == proc[p].session_id IN
    /\ proc[p].pc = "copy_subdir"
    /\ IF subdir_exists(fs, source_dir(p), sid)
       THEN IF copytree_exists(fs, dest_dir(p), sid)
            THEN /\ fs' = fs
                 /\ proc' = [proc EXCEPT ![p] = Raise(@, "FileExistsError")]
            ELSE \/ /\ fs' = copytree(fs, source_dir(p), dest_dir(p), sid)
                    /\ proc' = [proc EXCEPT ![p].pc = "save_dest"]
                 \/ /\ fs' \in copytree_failed(fs, source_dir(p), dest_dir(p), sid)
                    /\ proc' = [proc EXCEPT ![p] = Raise(@, "OSError")]
       ELSE /\ fs' = fs
            /\ proc' = [proc EXCEPT ![p].pc = "save_dest"]
    /\ UNCHANGED <<clock, fs0>>

\* Lines 229-233, step 3: add the entry to the destination index
SaveDest(p) ==
    LET dest_index == [proc[p].dest_index EXCEPT
                          !.entries = append(@, proc[p].new_session_data)]
    IN
    /\ proc[p].pc = "save_dest"
    /\ \/ /\ fs' = save_sessions_index(fs, dest_dir(p), dest_index)
          /\ proc' = [proc EXCEPT ![p] =
                [@ EXCEPT !.pc = "save_source", !.dest_index = dest_index]]
       \/ /\ fs' \in save_failed(fs, dest_dir(p))
          /\ proc' = [proc EXCEPT ![p] = Raise([@ EXCEPT !.dest_index = dest_index], "OSError")]
    /\ UNCHANGED <<clock, fs0>>

\* Lines 235-242, step 4: remove the entry from the source index
SaveSource(p) ==
    LET source_index == [proc[p].source_index EXCEPT
                            !.entries = pop(@, proc[p].session_idx)]
    IN
    /\ proc[p].pc = "save_source"
    /\ IF proc[p].session_idx # 0
       THEN \/ /\ fs' = save_sessions_index(fs, source_dir(p), source_index)
               /\ proc' = [proc EXCEPT ![p] =
                     [@ EXCEPT !.pc = "delete_jsonl", !.source_index = source_index]]
            \/ /\ fs' \in save_failed(fs, source_dir(p))
               /\ proc' = [proc EXCEPT ![p] = Raise([@ EXCEPT !.source_index = source_index], "OSError")]
       ELSE /\ fs' = fs
            /\ proc' = [proc EXCEPT ![p].pc = "delete_jsonl"]
    /\ UNCHANGED <<clock, fs0>>

\* Lines 244-248, step 5: delete the source log file
DeleteJsonl(p) ==
    LET sid == proc[p].session_id IN
    /\ proc[p].pc = "delete_jsonl"
    /\ IF jsonl_exists(fs, source_dir(p), sid)
       THEN \/ /\ fs' = unlink(fs, source_dir(p), sid)
               /\ proc' = [proc EXCEPT ![p].pc = "delete_subdir"]
            \/ /\ fs' = fs
               /\ proc' = [proc EXCEPT ![p] = Raise(@, "OSError")]
       ELSE /\ fs' = fs
            /\ proc' = [proc EXCEPT ![p].pc = "delete_subdir"]
    /\ UNCHANGED <<clock, fs0>>

\* Lines 250-257, step 5: delete the source auxiliary directory, report success
DeleteSubdir(p) ==
    LET sid == proc[p].session_id IN
    /\ proc[p].pc = "delete_subdir"
    /\ IF subdir_exists(fs, source_dir(p), sid)
       THEN \/ /\ fs' = rmtree(fs, source_dir(p), sid)
               /\ proc' = [proc EXCEPT ![p] = Exit(@, 0, "Successfully moved session")]
            \/ /\ fs' \in rmtree_failed(fs, source_dir(p), sid)
               /\ proc' = [proc EXCEPT ![p] = Raise(@, "OSError")]
       ELSE /\ fs' = fs
            /\ proc' = [proc EXCEPT ![p] = Exit(@, 0, "Successfully moved session")]
    /\ UNCHANGED <<clock, fs0>>

\* Lines 264-266: rollback removes the destination log file if it exists
RollbackJsonl(p) ==
    LET sid == proc[p].session_id IN
    /\ proc[p].pc = "rollback_jsonl"
    /\ IF jsonl_exists(fs, dest_dir(p), sid)
       THEN \/ /\ fs' = unlink(fs, dest_dir(p), sid)
               /\ proc' = [proc EXCEPT ![p].pc = "rollback_subdir"]
            \/ /\ fs' = fs
               /\ proc' = [proc EXCEPT ![p] = RollbackFailed(@)]
       ELSE /\ fs' = fs
            /\ proc' = [proc EXCEPT ![p].pc = "rollback_subdir"]
    /\ UNCHANGED <<clock, fs0>>

\* Lines 267-268: rollback removes the destination auxiliary directory if it
\* exists
RollbackSubdir(p) ==
    LET sid == proc[p].session_id IN
    /\ proc[p].pc = "rollback_subdir"
    /\ IF subdir_exists(fs, dest_dir(p), sid)
       THEN \/ /\ fs' = rmtree(fs, dest_dir(p), sid)
               /\ proc' = [proc EXCEPT ![p].pc = "rollback_load"]
            \/ /\ fs' \in rmtree_failed(fs, dest_dir(p), sid)
               /\ proc' = [proc EXCEPT ![p] = RollbackFailed(@)]
       ELSE /\ fs' = fs
            /\ proc' = [proc EXCEPT ![p].pc = "rollback_load"]
    /\ UNCHANGED <<clock, fs0>>

\* Faulty variant: the rollback works on the copy of the destination index
\* that the invocation holds in memory
reuse_dest_index(f, d, r) == r.dest_index

\* Line 271: the rollback loads the destination index from the file again
reload_dest_index(f, d, r) == load_sessions_index(f, d, <<>>)

\* Lines 270-275: rollback loads the destination index again and filters it
RollbackLoad(p) ==
    /\ proc[p].pc = "rollback_load"
    /\ IF load_raises(fs, dest_dir(p))
       THEN proc' = [proc EXCEPT ![p] = RollbackFailed(@)]
       ELSE LET loaded == reload_dest_index(fs, dest_dir(p), proc[p])
            IN  proc' = [proc EXCEPT ![p] =
                   [@ EXCEPT !.pc = "rollback_save",
                             !.dest_index_restored =
                                [loaded EXCEPT !.entries =
                                    without_session(@, proc[p].session_id)]]]
    /\ UNCHANGED <<fs, clock, fs0>>

\* Lines 276-283: rollback saves the filtered index; the process exits 1
RollbackSave(p) ==
    /\ proc[p].pc = "rollback_save"
    /\ \/ /\ fs' = save_sessions_index(fs, dest_dir(p), proc[p].dest_index_restored)
          /\ proc' = [proc EXCEPT ![p] =
                Exit(@, 1, "Rollback complete. Source files preserved.")]
       \/ /\ fs' \in save_failed(fs, dest_dir(p))
          /\ proc' = [proc EXCEPT ![p] = RollbackFailed(@)]
    /\ UNCHANGED <<clock, fs0>>

Next ==
    \E p \in Procs :
       \/ Start(p)
       \/ Mkdir(p)
       \/ LoadSource(p)
       \/ LoadDest(p)
       \/ DryRun(p)
       \/ CopyJsonl(p)
       \/ CopySubdir(p)
       \/ SaveDest(p)
       \/ SaveSource(p)
       \/ DeleteJsonl(p)
       \/ DeleteSubdir(p)
       \/ RollbackJsonl(p)
       \/ RollbackSubdir(p)
       \/ RollbackLoad(p)
       \/ RollbackSave(p)

Spec == Init /\ [][Next]_vars

----------------------------------------------------------------------------
\* Two invocations at once: the tool takes no lock, so the steps of two
\* processes interleave freely.

ConcSource == <<"/", "a", ".", "b">>

ConcDest == <<"/", "c">>

\* The source project lists both sessions and holds their log files, with or
\* without their auxiliary directories; the destination project is missing,
\* empty, or has an index without entries.
ConcFS ==
    LET sd == get_project_dir(ConcSource)
        dd == get_project_dir(ConcDest)
        Src(S) == [index |-> <<Doc(<<Entry0("s1", sd), Entry0("s2", sd)>>, ConcSource)>>,
                   logs |-> [s \in Sessions |-> LogData(sd, s)],
                   subdirs |-> [s \in S |-> SubData(sd, s)]]
    IN  UNION {{(sd :> Src(S)),
                (sd :> Src(S)) @@ (dd :> EmptyDir),
                (sd :> Src(S)) @@ (dd :> [EmptyDir EXCEPT !.index = <<Doc(<<>>, ConcDest)>>])} : S \in {{}, Sessions}}

\* Process 1 moves s1 and process 2 moves s2 (or plans it, in a dry run),
\* both from the same source project into the same destination project.
InitConc ==
    /\ fs \in ConcFS
    /\ fs0 = fs
    /\ clock = StartClock
    /\ \E dry \in BOOLEAN :
          proc = [p \in Procs |-> IF p = 1
                                  THEN Invocation("s1", ConcSource, ConcDest, FALSE)
                                  ELSE Invocation("s2", ConcSource, ConcDest, dry)]

SpecConc == InitConc /\ [][Next]_vars

----------------------------------------------------------------------------
\* Properties of move_session

\* The invocation has ended
Ended(p) == proc[p].pc = "exit"

Printed(p, msg) == msg \in proc[p].out

\* The session was listed in the source index before the call
Indexed0(p) ==
    /\ index_exists(fs0, source_dir(p))
    /\ find_session_in_index(fs0[source_dir(p)].index[1], proc[p].session_id) # 0

\* The log file and the auxiliary directory of the session that the source
\* project held before the call are still there, with the same content
SourceIntact(p) ==
    LET sid == proc[p].session_id
        sd == source_dir(p)
    IN  /\ jsonl_exists(fs0, sd, sid) =>
              jsonl_exists(fs, sd, sid) /\ fs[sd].logs[sid] = fs0[sd].logs[sid]
        /\ subdir_exists(fs0, sd, sid) =>
              subdir_exists(fs, sd, sid) /\ fs[sd].subdirs[sid] = fs0[sd].subdirs[sid]

\* The index on disk of directory d lists the session
Listed(f, d, sid) ==
    index_exists(f, d) /\ f[d].index[1].valid /\ find_session_in_index(f[d].index[1], sid) # 0

\* One of the three validation failures was reported
ValidationFailed(p) ==
    \/ Printed(p, "Error: Source project directory does not exist")
    \/ Printed(p, "Error: Session not found in source project")
    \/ Printed(p, "Error: Session already exists in destination project")

\* C1: after a failure in the copy stage (copying the log file or the
\* auxiliary directory) of a move that is not a dry run, the source log file
\* and the source auxiliary directory still exist with their contents from
\* before the move, whether the rollback succeeded or not.
C1_SourcePreservedOnCopyFailure ==
    \A p \in Procs :
       (Ended(p) /\ proc[p].e.at \in {"copy_jsonl", "copy_subdir"}) => SourceIntact(p)

\* C2: a step deletes a source artifact (the source log file or the source
\* auxiliary directory) only when the destination index on disk holds the
\* staged entry and, if the session was found in the source index, the source
\* index on disk no longer lists it.
C2_DeleteOnlyAfterCommits ==
    [][\A p \in Procs :
          LET sid == proc[p].session_id
              sd == source_dir(p)
              dd == dest_dir(p)
          IN  (\/ jsonl_exists(fs, sd, sid) /\ ~jsonl_exists(fs', sd, sid)
               \/ subdir_exists(fs, sd, sid) /\ ~subdir_exists(fs', sd, sid))
              => /\ Listed(fs, dd, sid)
                 /\ fs[dd].index[1].entries[find_session_in_index(fs[dd].index[1], sid)]
                       = proc[p].new_session_data
                 /\ proc[p].session_idx # 0 =>
                       index_exists(fs, sd) /\ fs[sd].index[1].valid /\ ~Listed(fs, sd, sid)]_vars

\* C3: a dry run changes nothing on disk: in every state of a dry run the
\* directories, files and indexes are those from before the call; a missing
\* destination directory is not created.
C3_DryRunChangesNothing ==
    \A p \in Procs : proc[p].dry_run => fs = fs0

\* C3 witness: a dry run ended with status 0 for a session found only on disk,
\* with the destination directory missing.
C3_Witness ==
    /\ Ended(1) /\ proc[1].dry_run /\ proc[1].exit_code = 0
    /\ ~Indexed0(1)
    /\ ~dir_exists(fs0, dest_dir(1))

\* C4: when the move aborts with SessionNotFound or DuplicateSession the
\* process exits with status 1, every project directory that existed before
\* the call is as it was (no index is written, no log file or auxiliary
\* directory is copied) and a directory created by the call is empty.
C4_ValidationAbortCopiesNothing ==
    \A p \in Procs :
       (Ended(p) /\ (\/ Printed(p, "Error: Session not found in source project")
                     \/ Printed(p, "Error: Session already exists in destination project")))
       => /\ proc[p].exit_code = 1
          /\ \A d \in DOMAIN fs0 : dir_exists(fs, d) /\ fs[d] = fs0[d]
          /\ \A d \in DOMAIN fs : ~dir_exists(fs0, d) =>
                fs[d].index = <<>> /\ DOMAIN fs[d].logs = {} /\ DOMAIN fs[d].subdirs = {}

\* C4 witness: a DuplicateSession abort while the source holds the log file
\* and the auxiliary directory of the session.
C4_Witness ==
    /\ Ended(1) /\ Printed(1, "Error: Session already exists in destination project")
    /\ source_dir(1) # dest_dir(1)
    /\ jsonl_exists(fs, source_dir(1), "s1") /\ subdir_exists(fs, source_dir(1), "s1")

\* C5: a validation failure (source project missing, session not found,
\* duplicate in destination) leaves the file system as it was before the call;
\* a destination directory that did not exist is not created.
C5_ValidationNoSideEffect ==
    \A p \in Procs : (Ended(p) /\ ValidationFailed(p)) => fs = fs0

\* C6: if the source project directory does not exist the call ends at the
\* first check with status 1: the file system is as it was before the call
\* (the destination directory is not created, nothing is copied or deleted)
\* and neither index was loaded.
C6_SourceMissingNoMutation ==
    \A p \in Procs :
       (proc[p].pc \notin {"idle", "start"} /\ ~dir_exists(fs0, source_dir(p)))
       => /\ Ended(p)
          /\ proc[p].exit_code = 1
          /\ proc[p].out = {"Error: Source project directory does not exist"}
          /\ fs = fs0
          /\ proc[p].source_index = Corrupt /\ proc[p].dest_index = Corrupt

\* C6 witness: the source project is missing, the destination one is too, and
\* the call has ended.
C6_Witness ==
    /\ Ended(1) /\ ~proc[1].dry_run
    /\ source_dir(1) # dest_dir(1)
    /\ ~dir_exists(fs0, source_dir(1))
    /\ ~dir_exists(fs0, dest_dir(1))

\* The move reported success
Succeeded(p) == Ended(p) /\ Printed(p, "Successfully moved session")

\* The positions of the entries of an index that carry this sessionId
Positions(index, sid) == {i \in DOMAIN index.entries : index.entries[i].sessionId = sid}

\* The first entry for the session in the index on disk of directory d
EntryOf(f, d, sid) == f[d].index[1].entries[find_session_in_index(f[d].index[1], sid)]

\* The artifact is in the destination as the source held it before the call
LogMoved(p) ==
    LET sid == proc[p].session_id IN
    /\ jsonl_exists(fs, dest_dir(p), sid)
    /\ fs[dest_dir(p)].logs[sid] = fs0[source_dir(p)].logs[sid]

SubdirMoved(p) ==
    LET sid == proc[p].session_id IN
    /\ subdir_exists(fs, dest_dir(p), sid)
    /\ fs[dest_dir(p)].subdirs[sid] = fs0[source_dir(p)].subdirs[sid]

\* The destination artifact is as it was before the call
DestLogUntouched(p) ==
    LET sid == proc[p].session_id
        dd == dest_dir(p)
    IN  /\ jsonl_exists(fs, dd, sid) = jsonl_exists(fs0, dd, sid)
        /\ jsonl_exists(fs, dd, sid) => fs[dd].logs[sid] = fs0[dd].logs[sid]

DestSubdirUntouched(p) ==
    LET sid == proc[p].session_id
        dd == dest_dir(p)
    IN  /\ subdir_exists(fs, dd, sid) = subdir_exists(fs0, dd, sid)
        /\ subdir_exists(fs, dd, sid) => fs[dd].subdirs[sid] = fs0[dd].subdirs[sid]

\* What a successful move of an indexed session leaves in both indexes and
\* in the source directory
IndexesAndSourceMoved(p) ==
    LET sid == proc[p].session_id
        sd == source_dir(p)
        dd == dest_dir(p)
    IN  /\ dir_exists(fs, dd)
        /\ index_exists(fs, dd) /\ fs[dd].index[1].valid
        /\ Cardinality(Positions(fs[dd].index[1], sid)) = 1
        /\ index_exists(fs, sd) /\ fs[sd].index[1].valid
        /\ Positions(fs[sd].index[1], sid) = {}
        /\ ~jsonl_exists(fs, sd, sid)
        /\ ~subdir_exists(fs, sd, sid)

\* C7 as stated: after a successful move of a session indexed in the source,
\* between different project directories, the destination log file exists
\* with the content the source log file had, the destination auxiliary
\* directory exists iff the source one did, the destination index has exactly
\* one entry for the session, the source index has none, and the source log
\* file and auxiliary directory no longer exist.
C7_MoveIndexedAsStated ==
    \A p \in Procs :
       (Succeeded(p) /\ Indexed0(p) /\ source_dir(p) # dest_dir(p))
       => /\ jsonl_exists(fs, dest_dir(p), proc[p].session_id)
          /\ jsonl_exists(fs0, source_dir(p), proc[p].session_id) => LogMoved(p)
          /\ subdir_exists(fs, dest_dir(p), proc[p].session_id)
                = subdir_exists(fs0, source_dir(p), proc[p].session_id)
          /\ IndexesAndSourceMoved(p)

\* C7 amended: after a successful move of a session indexed in the source,
\* between different project directories: if the source log file existed the
\* destination log file exists with its content, otherwise the destination
\* log file is as it was before the call; likewise for the auxiliary
\* directory; the destination index has exactly one entry for the session,
\* the source index has none, and the source log file and auxiliary
\* directory no longer exist.
C7_MoveIndexed ==
    \A p \in Procs :
       (Succeeded(p) /\ Indexed0(p) /\ source_dir(p) # dest_dir(p))
       => /\ IF jsonl_exists(fs0, source_dir(p), proc[p].session_id)
             THEN LogMoved(p) ELSE DestLogUntouched(p)
          /\ IF subdir_exists(fs0, source_dir(p), proc[p].session_id)
             THEN SubdirMoved(p) ELSE DestSubdirUntouched(p)
          /\ IndexesAndSourceMoved(p)

\* C7 witness: a successful move of an indexed session whose log file and
\* auxiliary directory existed, into a project directory that did not exist.
C7_Witness ==
    /\ Succeeded(1) /\ Indexed0(1)
    /\ jsonl_exists(fs0, source_dir(1), "s1") /\ subdir_exists(fs0, source_dir(1), "s1")
    /\ ~dir_exists(fs0, dest_dir(1))
    /\ Listed(fs0, source_dir(1), "s2")

\* C8: after a successful move of an indexed session the destination entry
\* has the sessionId, created timestamp and summary of the source entry from
\* before the move, its fullPath is <destination dir>/<session-id>.jsonl, its
\* projectPath is the destination project path, and its modified timestamp
\* is not earlier than the source entry's.
C8_RoundTripMetadata ==
    \A p \in Procs :
       (Succeeded(p) /\ Indexed0(p))
       => /\ Listed(fs, dest_dir(p), proc[p].session_id)
          /\ LET new == EntryOf(fs, dest_dir(p), proc[p].session_id)
                 old == EntryOf(fs0, source_dir(p), proc[p].session_id)
             IN  /\ new.sessionId = old.sessionId
                 /\ new.created = old.created
                 /\ new.summary = old.summary
                 /\ new.fullPath = jsonl_path(dest_dir(p), proc[p].session_id)
                 /\ new.projectPath = proc[p].dest_path
                 /\ new.modified >= old.modified

\* C8 witness: a successful move whose destination entry carries a later
\* modified timestamp than the source entry had.
C8_Witness ==
    /\ Succeeded(1) /\ Indexed0(1)
    /\ EntryOf(fs, dest_dir(1), "s1").modified > EntryOf(fs0, source_dir(1), "s1").modified
    /\ EntryOf(fs, dest_dir(1), "s1").projectPath # EntryOf(fs0, source_dir(1), "s1").projectPath

\* The source project holds the log file of the session but its index, which
\* loads, does not list it; the destination is a different directory whose
\* index loads and does not list it either.
Unindexed0(p) ==
    LET sid == proc[p].session_id IN
    /\ source_dir(p) # dest_dir(p)
    /\ jsonl_exists(fs0, source_dir(p), sid)
    /\ ~load_raises(fs0, source_dir(p)) /\ ~Listed(fs0, source_dir(p), sid)
    /\ ~load_raises(fs0, dest_dir(p)) /\ ~Listed(fs0, dest_dir(p), sid)

\* No operation of the call raised
NothingRaised(p) == proc[p].e = NoException /\ ~Printed(p, "Traceback")

C10_RollbackCleansDestination ==
    \A p \in Procs :
       (Ended(p) /\ Printed(p, "Rollback complete. Source files preserved."))
       => /\ ~jsonl_exists(fs, dest_dir(p), proc[p].session_id)
          /\ ~subdir_exists(fs, dest_dir(p), proc[p].session_id)
          /\ index_exists(fs, dest_dir(p)) /\ fs[dest_dir(p)].index[1].valid
          /\ Positions(fs[dest_dir(p)].index[1], proc[p].session_id) = {}

\* C10 witness: the rollback completed after the source index could not be
\* saved, that is after the destination index had been committed with the
\* staged entry and both artifacts had been copied.
C10_Witness ==
    /\ Ended(1) /\ Printed(1, "Rollback complete. Source files preserved.")
    /\ proc[1].e.at = "save_source"
    /\ jsonl_exists(fs0, source_dir(1), "s1") /\ subdir_exists(fs0, source_dir(1), "s1")
    /\ Positions(proc[1].dest_index, "s1") # {}

\* The steps of the handler at lines 259-283
RollbackSteps == {"rollback_jsonl", "rollback_subdir", "rollback_load", "rollback_save"}

\* C11: a failure raised in the copy, index-commit or source-delete steps
\* puts the call into the rollback and the process ends with status 1,
\* having reported the failure and exactly one rollback outcome (complete or
\* failed), never success; status 0 is reached only when no step raised.
C11_FailureExitsOne ==
    \A p \in Procs :
       /\ proc[p].e # NoException =>
             /\ proc[p].pc \in RollbackSteps \cup {"exit"}
             /\ Printed(p, "Error during migration") /\ Printed(p, "Attempting rollback...")
       /\ (Ended(p) /\ proc[p].e # NoException) =>
             /\ proc[p].exit_code = 1
             /\ ~Printed(p, "Successfully moved session")
             /\ Printed(p, "Rollback complete. Source files preserved.")
                   # Printed(p, "Rollback failed")
       /\ (Ended(p) /\ proc[p].exit_code = 0) =>
             /\ proc[p].e = NoException
             /\ ~Printed(p, "Rollback failed")
             /\ Printed(p, "Successfully moved session") # Printed(p, "Dry run complete.")

\* C11 witness: the removal of the source auxiliary directory failed and the
\* rollback failed too.
C11_Witness ==
    /\ Ended(1) /\ proc[1].e.at = "delete_subdir"
    /\ Printed(1, "Rollback failed")
    /\ proc[1].exit_code = 1

\* Every sessionId occurs at most once in every index on disk that parses
UniqueIds(f) ==
    \A d \in DOMAIN f :
       (index_exists(f, d) /\ f[d].index[1].valid) =>
          \A sid \in Sessions : Cardinality(Positions(f[d].index[1], sid)) <= 1

\* C12: the session identifiers being unique in both indexes before the
\* call, they are unique in every index on disk in every state of the call,
\* whatever its outcome.
C12_UniqueIds == UniqueIds(fs0) => UniqueIds(fs)

\* C12 witness: the session was listed in both indexes before the call, which
\* ended with the duplicate error.
C12_Witness ==
    /\ Ended(1) /\ Indexed0(1) /\ Listed(fs0, dest_dir(1), "s1")
    /\ source_dir(1) # dest_dir(1)
    /\ jsonl_exists(fs0, source_dir(1), "s1")

\* The rollback ran to its end without an error
RollbackComplete(p) == Ended(p) /\ Printed(p, "Rollback complete. Source files preserved.")

\* C13: whenever the call ends by reporting "Rollback complete. Source files
\* preserved." (after a failure at any migration step, the source-deletion
\* step included), the source log file and the source auxiliary directory
\* that existed before the call still exist with their contents.  Stated for
\* a move between two different project directories.
C13_RollbackCompleteSourceUntouched ==
    \A p \in Procs :
       (RollbackComplete(p) /\ source_dir(p) # dest_dir(p)) => SourceIntact(p)

\* C14: after a failed move and its rollback, a destination log file or
\* destination auxiliary directory that existed before the move is still
\* there with its content: the rollback deletes only what the call created.
\* Stated for a move between two different project directories.
C14_RollbackKeepsPreexisting ==
    \A p \in Procs :
       (RollbackComplete(p) /\ source_dir(p) # dest_dir(p)) =>
          LET sid == proc[p].session_id
              dd == dest_dir(p)
          IN  /\ jsonl_exists(fs0, dd, sid) =>
                    jsonl_exists(fs, dd, sid) /\ fs[dd].logs[sid] = fs0[dd].logs[sid]
              /\ subdir_exists(fs0, dd, sid) =>
                    subdir_exists(fs, dd, sid) /\ fs[dd].subdirs[sid] = fs0[dd].subdirs[sid]

\* C15: when the source and destination paths resolve to the same project
\* directory, the log file of the session, indexed or not, still exists in
\* that directory with its content after the call.
C15_SameDirKeepsSession ==
    \A p \in Procs :
       (Ended(p) /\ source_dir(p) = dest_dir(p)
                 /\ jsonl_exists(fs0, source_dir(p), proc[p].session_id))
       => /\ jsonl_exists(fs, source_dir(p), proc[p].session_id)
          /\ fs[source_dir(p)].logs[proc[p].session_id]
                = fs0[source_dir(p)].logs[proc[p].session_id]

\* C16: a session listed in the source index before the call, moved between
\* two different project directories (the destination index not listing it),
\* is listed in exactly one of the two indexes on disk in every terminal
\* state: the destination index after success, the source index after a
\* validation failure or a failure with completed rollback.  Stated for the
\* runs that leave a source index file that parses.
C16_EntryNeverLost ==
    \A p \in Procs :
       LET sid == proc[p].session_id
           sd == source_dir(p)
           dd == dest_dir(p)
       IN  (/\ Indexed0(p) /\ sd # dd /\ ~Listed(fs0, dd, sid)
            /\ ~load_raises(fs, sd)
            /\ Succeeded(p) \/ (Ended(p) /\ ValidationFailed(p)) \/ RollbackComplete(p))
           => IF Succeeded(p)
              THEN Listed(fs, dd, sid) /\ ~Listed(fs, sd, sid)
              ELSE Listed(fs, sd, sid) /\ ~Listed(fs, dd, sid)

\* The entries of the index on disk of directory d (none if the file is
\* missing or does not parse) that belong to other sessions, in order
OtherEntries(f, d, sid) ==
    IF index_exists(f, d) /\ f[d].index[1].valid
    THEN SelectSeq(f[d].index[1].entries, LAMBDA x : x.sessionId # sid)
    ELSE <<>>

\* C17: the rollback rebuilds the destination index from the file as it is on
\* disk when the rollback loads it, not from the copy loaded before the copy
\* stage: the filtered index holds exactly the entries of the other sessions
\* that the file holds at that moment, in their order (an entry another
\* process wrote in between included), and the save that completes the
\* rollback writes exactly that filtered index.
C17_RollbackReloadsFromDisk ==
    [][\A p \in Procs :
          LET sid == proc[p].session_id
              dd == dest_dir(p)
          IN  /\ (proc[p].pc = "rollback_load" /\ proc'[p].pc = "rollback_save")
                 => proc'[p].dest_index_restored.entries = OtherEntries(fs, dd, sid)
              /\ (proc[p].pc = "rollback_save" /\ RollbackComplete(p)')
                 => /\ index_exists(fs', dd)
                    /\ fs'[dd].index[1].entries = proc[p].dest_index_restored.entries
                    /\ ~Listed(fs', dd, sid)]_vars

\* C17 witness: process 1 loaded the destination index before process 2
\* wrote the entry of s2 into it; process 1 then failed and its rollback
\* completed, and the index it saved still holds the entry of s2.
C17_Witness ==
    /\ RollbackComplete(1)
    /\ dest_dir(1) = dest_dir(2) /\ source_dir(1) # dest_dir(1)
    /\ find_session_in_index(proc[1].dest_index, "s2") = 0
    /\ find_session_in_index(proc[1].dest_index_restored, "s2") # 0
    /\ Listed(fs, dest_dir(1), "s2")

\* C18: last writer wins.  When two invocations that move different sessions
\* into the same destination project have both reported success, the
\* destination index on disk is the document one of them wrote: the index
\* that invocation had loaded plus its own entry, without merging what the
\* other one wrote.
C18_LastWriterWins ==
    \A p \in Procs : \A q \in Procs \ {p} :
       (/\ Succeeded(p) /\ Succeeded(q)
        /\ dest_dir(p) = dest_dir(q)
        /\ source_dir(p) # dest_dir(p) /\ source_dir(q) # dest_dir(q))
       => /\ index_exists(fs, dest_dir(p))
          /\ fs[dest_dir(p)].index[1] \in {proc[p].dest_index, proc[q].dest_index}
          /\ \A r \in {p, q} :
                proc[r].dest_index.entries[Len(proc[r].dest_index.entries)]
                   = proc[r].new_session_data

\* C18 witness: both invocations completed every step and reported success,
\* and the destination index on disk lists only one of the two sessions.
C18_Witness ==
    /\ Succeeded(1) /\ Succeeded(2)
    /\ proc[1].session_id = "s1" /\ proc[2].session_id = "s2"
    /\ dest_dir(1) = dest_dir(2) /\ source_dir(1) # dest_dir(1)
    /\ index_exists(fs, dest_dir(1)) /\ fs[dest_dir(1)].index[1].valid
    /\ Listed(fs, dest_dir(1), "s1") # Listed(fs, dest_dir(1), "s2")

\* C19: no step turns an index file that parses into one that does not: after
\* a save that failed the file is the previous or the new document.
C19_SaveNeverCorrupts ==
    [][\A d \in DOMAIN fs :
          (index_exists(fs, d) /\ fs[d].index[1].valid)
          => (index_exists(fs', d) /\ fs'[d].index[1].valid)]_vars

\* C20: whatever the outcome of the call, in both project directories the
\* index entries of the other sessions keep their content and order, and the
\* log files and auxiliary directories of the other sessions are unchanged.
C20_OnlyMovedSessionTouched ==
    \A p \in Procs :
       Ended(p) =>
          \A d \in {source_dir(p), dest_dir(p)} :
             /\ dir_exists(fs0, d) => dir_exists(fs, d)
             /\ OtherEntries(fs, d, proc[p].session_id)
                   = OtherEntries(fs0, d, proc[p].session_id)
             /\ \A sid \in Sessions \ {proc[p].session_id} :
                   /\ jsonl_exists(fs, d, sid) = jsonl_exists(fs0, d, sid)
                   /\ jsonl_exists(fs, d, sid) => fs[d].logs[sid] = fs0[d].logs[sid]
                   /\ subdir_exists(fs, d, sid) = subdir_exists(fs0, d, sid)
                   /\ subdir_exists(fs, d, sid) =>
                         fs[d].subdirs[sid] = fs0[d].subdirs[sid]

====
